---------------------------- MODULE Spec2Model ----------------------------
(***************************************************************************)
(* The complaint-phrase section of src/app.py (lines 163-191): the         *)
(* negative reviews' feedback texts are cleaned, split into words, paired  *)
(* into two-word phrases, filtered against neutral_phrases, counted in a   *)
(* Counter, and the ten most frequent phrases are put in bigram_df.        *)
(*                                                                         *)
(* A text is a sequence of one-character strings, so that clean_text and   *)
(* str.split work on characters as the code does.                          *)
(***************************************************************************)
EXTENDS Integers, Sequences, FiniteSets, TLC

\* ------------------------------------------------------------ characters

\* a missing customer_feedback cell (NaN), which Series.dropna() removes;
\* no text equals it, a text's elements being single characters
None == <<"None">>

AsciiLower ==
    <<"a","b","c","d","e","f","g","h","i","j","k","l","m",
      "n","o","p","q","r","s","t","u","v","w","x","y","z">>

AsciiUpper ==
    <<"A","B","C","D","E","F","G","H","I","J","K","L","M",
      "N","O","P","Q","R","S","T","U","V","W","X","Y","Z">>

\* the class a-z of the pattern [^a-z\s]
LowerLetters == {AsciiLower[k] : k \in 1..26}

\* the class \s of the pattern [^a-z\s], and what str.split() splits on
Whitespace == {" ", "\t", "\n", "\r", "\f"}

UpperLetters == {AsciiUpper[k] : k \in 1..26}

\* the lower-case letter of each capital
Lowered == [c \in UpperLetters |-> AsciiLower[CHOOSE k \in 1..26 : AsciiUpper[k] = c]]

\* str.lower() on one character: a capital becomes its lower-case letter,
\* any other character stays
LowerChar(c) == IF c \in UpperLetters THEN Lowered[c] ELSE c

\* a fault of text.lower(): the text is left in the case it was typed in
str_lower_Unchanged(text) == text

\* text.lower()
str_lower(text) == [k \in 1..Len(text) |-> LowerChar(text[k])]

KeptByPattern(c) == c \in LowerLetters \/ c \in Whitespace

\* re.sub(r"[^a-z\s]", "", s): every character outside a-z and \s is deleted
re_sub(s) == SelectSeq(s, KeptByPattern)

\* def clean_text(text): return re.sub(r"[^a-z\s]", "", text.lower())
clean_text(text) == re_sub(str_lower(text))

\* str.split() with no argument: the maximal runs of non-whitespace
\* characters, in order; runs of whitespace separate them and yield no
\* empty word.  cur is the word being read, out the words read so far.
RECURSIVE SplitFrom(_, _, _, _)
SplitFrom(s, k, cur, out) ==
    IF k > Len(s)
    THEN IF cur = <<>> THEN out ELSE Append(out, cur)
    ELSE IF s[k] \in Whitespace
         THEN SplitFrom(s, k + 1, <<>>, IF cur = <<>> THEN out ELSE Append(out, cur))
         ELSE SplitFrom(s, k + 1, Append(cur, s[k]), out)

str_split(s) == SplitFrom(s, 1, <<>>, <<>>)

\* ----------------------------------------------------------------- words

w_fast == <<"f","a","s","t">>
w_delivery == <<"d","e","l","i","v","e","r","y">>
w_good == <<"g","o","o","d">>
w_service == <<"s","e","r","v","i","c","e">>
w_quick == <<"q","u","i","c","k">>
w_nice == <<"n","i","c","e">>
w_fresh == <<"f","r","e","s","h">>
w_items == <<"i","t","e","m","s">>
w_late == <<"l","a","t","e">>
w_but == <<"b","u","t">>
w_the == <<"t","h","e">>
w_order == <<"o","r","d","e","r">>
w_was == <<"w","a","s">>
w_and == <<"a","n","d">>
w_cold == <<"c","o","l","d">>
w_with == <<"w","i","t","h">>
w_two == <<"t","w","o">>
w_missing == <<"m","i","s","s","i","n","g">>
w_again == <<"a","g","a","i","n">>

\* f"{a} {b}"
Join2(a, b) == a \o <<" ">> \o b

\* neutral_phrases = {"fast delivery", "good service", "quick delivery",
\*                    "nice delivery", "fresh items"}
neutral_phrases ==
    { Join2(w_fast, w_delivery), Join2(w_good, w_service),
      Join2(w_quick, w_delivery), Join2(w_nice, w_delivery),
      Join2(w_fresh, w_items) }

\* the argument of .head(10)
top_k == 10

\* ---------------------------------------------------------------- inputs

\* raw words as a customer may type them
P_Fast == <<"F","a","s","t">>
P_Delivery == <<"\t","D","e","l","i","v","e","r","y","4","!">>

Pieces == {P_Fast, w_delivery, P_Delivery}
RerunPieces == {P_Delivery, w_late}

\* a feedback cell of spaces only
Blank == <<" ", " ", " ">>

\* bounds of the inputs
MaxWords == 4
MaxReviews == 2
MaxRerunWords == 3
MaxRerunReviews == 2
MaxRuns == 2
MaxWideReviews == 4
MaxTie == 3

\* A row of the input describes one feedback cell: <<None>> a missing cell,
\* <<Blank>> a cell of spaces, or the raw words the text is made of (joined
\* by single spaces; <<>> is the empty text).
RECURSIVE JoinPieces(_)
JoinPieces(ps) ==
    IF ps = <<>> THEN <<>>
    ELSE IF Len(ps) = 1 THEN ps[1]
    ELSE ps[1] \o <<" ">> \o JoinPieces(Tail(ps))

RawText(row) == IF row = <<None>> THEN None ELSE JoinPieces(row)

\* what a cell without raw words may be: missing, spaces only, or empty
ZeroRows == {<<None>>, <<Blank>>, <<>>}

RECURSIVE SumTo(_, _)
SumTo(f, k) == IF k = 0 THEN 0 ELSE f[k] + SumTo(f, k - 1)

\* the numbers of raw words of the rows: at most maxRows rows holding at
\* most maxWords raw words in all
RowSizes(maxRows, maxWords) ==
    UNION { {sz \in [1..k -> 0..maxWords] : SumTo(sz, k) <= maxWords}
            : k \in 0..maxRows }

ZeroAt(sz) == {j \in DOMAIN sz : sz[j] = 0}

\* the column whose row j holds the next sz[j] raw words of content, or,
\* where sz[j] = 0, is the cell zeros[j]
Column(sz, content, zeros) ==
    [j \in DOMAIN sz |->
        IF sz[j] = 0 THEN zeros[j]
        ELSE [m \in 1..sz[j] |-> content[SumTo(sz, j - 1) + m]]]

\* A long complaint, and the columns made of its beginnings: each row is a
\* shorter beginning of the sentence than the row before, so that the phrase
\* counts fall in steps of at most MaxTie phrases.
WideSentence ==
    << P_Fast, w_delivery, w_but, w_the, w_order, w_was, w_late,
       w_and, w_cold, w_with, w_two, w_items, w_missing, w_again >>

RECURSIVE WideLengths(_, _)
WideLengths(k, longest) ==
    IF k = 1
    THEN { <<n>> : n \in {m \in 1..longest : m <= MaxTie + 2} }
    ELSE UNION { { <<n>> \o rest : rest \in { ls \in WideLengths(k - 1, longest) :
                                                 n - ls[1] \in 1..MaxTie } }
                 : n \in 1..longest }

WideInputs ==
    UNION { { [j \in 1..k |-> SubSeq(WideSentence, 1, ls[j])]
              : ls \in WideLengths(k, Len(WideSentence)) }
            : k \in 1..MaxWideReviews }

\* ----------------------------------------------------------------- state

VARIABLES
    dataset,     \* the rows load_data() gives (cached: the same in every run)
    rows,        \* the rows the sidebar filters let through, as raw words
    feedback,    \* negative_df["customer_feedback"]: texts and missing cells
    run,         \* how many times the script has run
    pc,          \* where the script is: for_review, for_pair, done, error
    r,           \* how many reviews the outer for loop has taken
    words,       \* words of the review in hand
    i,           \* the inner loop's index
    counter,     \* the Counter, as its items() in insertion order
    bigram_df,   \* the displayed table, rows of (phrase, n)
    formed,      \* per review taken, the phrases the inner loop has formed
    sortmemo,    \* the order argsort gave each array of counts it has sorted
    earlier      \* (feedback, bigram_df) of the runs that have finished

vars == <<dataset, rows, feedback, run, pc, r, words, i, counter, bigram_df, formed,
          sortmemo, earlier>>

\* ---------------------------------------------------------- the program

IsNull(x) == x = None

\* a fault of Series.dropna(): the missing cells are kept
dropna_KeepMissing(series) == series

\* Series.dropna(): the cells that are not missing, in order
dropna(series) == SelectSeq(series, LAMBDA x : ~IsNull(x))

\* counter = Counter()
NewCounter == <<>>

HasKey(c, phrase) == \E k \in 1..Len(c) : c[k].phrase = phrase

\* a fault of counter[phrase] += 1: counter[phrase] = 1
Increment_SetOne(c, phrase) ==
    IF HasKey(c, phrase) THEN c ELSE Append(c, [phrase |-> phrase, n |-> 1])

\* counter[phrase] += 1: a key that is absent reads as 0 and is inserted
\* after the keys already there; a present key keeps its place
Increment(c, phrase) ==
    IF HasKey(c, phrase)
    THEN [k \in 1..Len(c) |->
            IF c[k].phrase = phrase THEN [c[k] EXCEPT !.n = @ + 1] ELSE c[k]]
    ELSE Append(c, [phrase |-> phrase, n |-> 1])

\* phrase = f"{words[i]} {words[i+1]}" (i counts from 0)
PhraseAt(ws, k) == Join2(ws[k + 1], ws[k + 2])

\* a fault of range(len(words) - 1): range(0, len(words) - 1, 2), the words
\* paired off instead of a window sliding by one
PairRange_Stride2(ws) == {k \in 0..(Len(ws) - 2) : k % 2 = 0}

\* range(len(words) - 1)
PairRange(ws) == 0..(Len(ws) - 2)

\* a fault of the neutral-phrase test: every phrase is counted
Counted_Always(phrase) == TRUE

\* if phrase not in neutral_phrases
Counted(phrase) == phrase \notin neutral_phrases

\* pd.DataFrame(counter.items(), columns=[...]): one row per key, in the
\* Counter's insertion order
DataFrame(c) == c

\* sort_values("Frequency", ascending=False) with the default
\* kind="quicksort", which is not stable: the rows come out with
\* non-increasing Frequency, rows of equal Frequency in an order the sort
\* does not promise.  SortOrders(df) is every order of the row numbers the
\* call may give.
RECURSIVE OrdersOf(_, _)
OrdersOf(df, left) ==
    IF left = {} THEN {<<>>}
    ELSE LET top == {k \in left : \A m \in left : df[k].n >= df[m].n}
         IN  UNION { {<<k>> \o rest : rest \in OrdersOf(df, left \ {k})} : k \in top }

\* a fault of sort_values: the rows are left in the Counter's order
SortOrders_Unsorted(df) == { [k \in 1..Len(df) |-> k] }

SortOrders(df) == OrdersOf(df, 1..Len(df))

Frequencies(df) == [k \in 1..Len(df) |-> df[k].n]

take(df, order) == [k \in 1..Len(order) |-> df[order[k]]]

\* a fault of .head(10): no row is cut off
head_All(df, n) == df

\* DataFrame.head(n): the first n rows; for n < 0 all rows but the last -n
head(df, n) ==
    IF n >= 0
    THEN SubSeq(df, 1, IF n < Len(df) THEN n ELSE Len(df))
    ELSE SubSeq(df, 1, IF Len(df) + n > 0 THEN Len(df) + n ELSE 0)

Start(input) ==
    /\ dataset = input
    /\ rows = input
    /\ feedback = [k \in 1..Len(input) |-> RawText(input[k])]
    /\ run = 1
    /\ pc = "for_review"
    /\ r = 0
    /\ words = <<>>
    /\ i = 0
    /\ counter = NewCounter
    /\ bigram_df = <<>>
    /\ formed = <<>>
    /\ sortmemo = <<>>
    /\ earlier = {}

Init ==
    \E sz \in RowSizes(MaxReviews, MaxWords) :
      \E content \in [1..SumTo(sz, Len(sz)) -> Pieces] :
        \E zeros \in [ZeroAt(sz) -> ZeroRows] :
          Start(Column(sz, content, zeros))

\* The first run of a session: the sidebar's multiselects start with every
\* platform and category selected, so every row passes the filters.

InitWide == \E input \in WideInputs : Start(input)

InitRerun ==
    \E sz \in RowSizes(MaxRerunReviews, MaxRerunWords) :
      \E content \in [1..SumTo(sz, Len(sz)) -> RerunPieces] :
        \E zeros \in [ZeroAt(sz) -> ZeroRows] :
          Start(Column(sz, content, zeros))

\* for review in negative_df["customer_feedback"].dropna():
\*     words = clean_text(review).split()
\* clean_text on a missing cell raises (a float has no lower()).  A review
\* of fewer than two words has an empty inner loop: the outer loop goes on.
NextReview ==
    /\ pc = "for_review"
    /\ r < Len(dropna(feedback))
    /\ LET review == dropna(feedback)[r + 1]
       IN  IF IsNull(review)
           THEN /\ pc' = "error"
                /\ UNCHANGED <<words, i, formed>>
           ELSE /\ words' = str_split(clean_text(review))
                /\ i' = 0
                /\ formed' = Append(formed, <<>>)
                /\ pc' = IF 0 \in PairRange(words') THEN "for_pair" ELSE "for_review"
    /\ r' = r + 1
    /\ UNCHANGED <<dataset, rows, feedback, run, counter, bigram_df, sortmemo, earlier>>

\*     for i in range(len(words) - 1):
\*         phrase = f"{words[i]} {words[i+1]}"
\*         if phrase not in neutral_phrases:
\*             counter[phrase] += 1
\* After the last pair of the review the outer loop goes on.
PairStep ==
    /\ pc = "for_pair"
    /\ i \in PairRange(words)
    /\ LET phrase == PhraseAt(words, i)
       IN  /\ counter' = IF Counted(phrase) THEN Increment(counter, phrase) ELSE counter
           /\ formed' = [formed EXCEPT ![Len(formed)] = Append(@, phrase)]
    /\ i' = i + 1
    /\ pc' = IF i + 1 \in PairRange(words) THEN "for_pair" ELSE "for_review"
    /\ UNCHANGED <<dataset, rows, feedback, run, r, words, bigram_df, sortmemo, earlier>>

\* bigram_df = (pd.DataFrame(counter.items(), ...)
\*              .sort_values("Frequency", ascending=False).head(10))
\* The sort is a function of the array of counts: an array sorted before
\* comes out in the order it came out then.
Rank ==
    /\ pc = "for_review"
    /\ r >= Len(dropna(feedback))
    /\ LET df == DataFrame(counter)
           key == Frequencies(df)
       IN  \E order \in SortOrders(df) :
             /\ key \in DOMAIN sortmemo => order = sortmemo[key]
             /\ sortmemo' = [a \in DOMAIN sortmemo \cup {key} |->
                               IF a = key THEN order ELSE sortmemo[a]]
             /\ bigram_df' = head(take(df, order), top_k)
    /\ pc' = "done"
    /\ UNCHANGED <<dataset, rows, feedback, run, r, words, i, counter, formed, earlier>>

\* a fault of counter = Counter(): the Counter of the run before is kept
CounterAtStart_Kept(old) == old

\* what a rerun of the script starts the Counter from: counter = Counter()
CounterAtStart(old) == NewCounter

\* df = df[df["platform"].isin(platforms) & df["product_category"].isin(categories)]
\* the rows of data whose keep flag is set, in order
RECURSIVE Filtered(_, _, _)
Filtered(data, keep, k) ==
    IF k > Len(data) THEN <<>>
    ELSE (IF keep[k] THEN <<data[k]>> ELSE <<>>) \o Filtered(data, keep, k + 1)

\* Streamlit runs the script again from the top (a sidebar filter changed):
\* load_data() returns the cached rows, the filters let some of them
\* through, and line 176 makes a new Counter.
Rerun ==
    /\ pc = "done"
    /\ run < MaxRuns
    /\ \E keep \in [1..Len(dataset) -> BOOLEAN] :
         LET selected == Filtered(dataset, keep, 1)
         IN  /\ rows' = selected
             /\ feedback' = [k \in 1..Len(selected) |-> RawText(selected[k])]
    /\ run' = run + 1
    /\ earlier' = earlier \cup {<<feedback, bigram_df>>}
    /\ counter' = CounterAtStart(counter)
    /\ pc' = "for_review"
    /\ r' = 0
    /\ words' = <<>>
    /\ i' = 0
    /\ formed' = <<>>
    /\ UNCHANGED <<dataset, bigram_df, sortmemo>>

Next == NextReview \/ PairStep \/ Rank

NextRerun == Next \/ Rerun

Spec == Init /\ [][Next]_vars

SpecWide == InitWide /\ [][Next]_vars

SpecRerun == InitRerun /\ [][NextRerun]_vars

\* ------------------------------------------------------------ properties

\* the accumulation loop has taken every review
LoopDone ==
    \/ pc = "done"
    \/ pc = "for_review" /\ r = Len(dropna(feedback))

RECURSIVE SeqSum(_, _)
SeqSum(f, k) == IF k = 0 THEN 0 ELSE f[k] + SeqSum(f, k - 1)

Max0(n) == IF n > 0 THEN n ELSE 0

Min(a, b) == IF a < b THEN a ELSE b

\* the words of a text
Tokens(text) == str_split(clean_text(text))

\* the texts the loop is given
Texts == dropna(feedback)

\* the words of each text the loop is given
TokensOfTexts == [k \in 1..Len(Texts) |-> Tokens(Texts[k])]

\* how often phrase is a pair of neighbouring words of the word list t
Occurrences(phrase, t) ==
    Cardinality({k \in 1..(Len(t) - 1) : Join2(t[k], t[k + 1]) = phrase})

\* over the word lists ts
TotalOccurrences(phrase, ts) ==
    SeqSum([k \in 1..Len(ts) |-> Occurrences(phrase, ts[k])], Len(ts))

\* every pair of neighbouring words of the word lists ts
PhrasesOf(ts) ==
    UNION { {Join2(ts[k][m], ts[k][m + 1]) : m \in 1..(Len(ts[k]) - 1)} : k \in 1..Len(ts) }

Keys(c) == {c[k].phrase : k \in 1..Len(c)}

CountOf(c, phrase) == c[CHOOSE k \in 1..Len(c) : c[k].phrase = phrase].n

KeysDistinct(c) ==
    \A a, b \in 1..Len(c) : c[a].phrase = c[b].phrase => a = b

\* counter holds exactly the phrases of the given texts that are not
\* neutral, each with its number of occurrences over all the texts
CountsMatchTexts ==
    LET ts == TokensOfTexts
    IN  /\ Keys(counter) = PhrasesOf(ts) \ neutral_phrases
        /\ \A k \in 1..Len(counter) :
             counter[k].n = TotalOccurrences(counter[k].phrase, ts)

\* C1: once the loop has taken every text, counter holds a phrase exactly
\* when it occurs as two neighbouring words of some text and is not in
\* neutral_phrases, with the number of its occurrences over all texts as its
\* count; and at no time does counter hold a phrase twice or with count 0.
C1_GlobalCounts ==
    /\ KeysDistinct(counter)
    /\ \A k \in 1..Len(counter) : counter[k].n >= 1
    /\ LoopDone => CountsMatchTexts

\* a phrase counted once in each of two texts
C1_Witness ==
    /\ pc = "done"
    /\ Len(Texts) = 2
    /\ \E phrase \in Keys(counter) :
         /\ CountOf(counter, phrase) = 2
         /\ Occurrences(phrase, Tokens(Texts[1])) = 1
         /\ Occurrences(phrase, Tokens(Texts[2])) = 1

\* C2: the counts of bigram_df do not increase from one row to the next.
C2_NonIncreasing ==
    pc = "done" =>
        \A a, b \in 1..Len(bigram_df) : a < b => bigram_df[a].n >= bigram_df[b].n

\* the phrase met second is the more frequent one and comes out first
C2_Witness ==
    /\ pc = "done"
    /\ Len(counter) >= 2
    /\ counter[1].n < counter[2].n
    /\ bigram_df[1] = counter[2]

\* where phrase stands in the Counter: the order in which phrases were first met
FirstMet(phrase) == CHOOSE k \in 1..Len(counter) : counter[k].phrase = phrase

\* C3: of two phrases with equal counts, the one met first during the
\* accumulation stands before the other in bigram_df.
C3_TiesByFirstMet ==
    pc = "done" =>
        \A a, b \in 1..Len(bigram_df) :
            (a < b /\ bigram_df[a].n = bigram_df[b].n)
                => FirstMet(bigram_df[a].phrase) < FirstMet(bigram_df[b].phrase)

\* every phrase formed so far, neutral or not
FormedPhrases == UNION { {formed[j][k] : k \in 1..Len(formed[j])} : j \in 1..Len(formed) }

\* C4: at every step no phrase of counter and no phrase of bigram_df is in
\* neutral_phrases, and every phrase formed that is not, letter for letter,
\* a neutral phrase is in counter (sharing a word with one does not exclude it).
C4_NeutralExcluded ==
    /\ Keys(counter) \cap neutral_phrases = {}
    /\ Keys(bigram_df) \cap neutral_phrases = {}
    /\ FormedPhrases \ neutral_phrases \subseteq Keys(counter)

\* "Fast \tDelivery4! Fast": fast delivery is formed and left out, delivery
\* fast is counted
C4_Witness ==
    /\ pc = "done"
    /\ \E k \in 1..Len(feedback) :
         feedback[k] = JoinPieces(<<P_Fast, P_Delivery, P_Fast>>)
    /\ Join2(w_fast, w_delivery) \in FormedPhrases
    /\ Join2(w_delivery, w_fast) \in Keys(bigram_df)

\* the sorted table bigram_df is the head of
Ranking == take(DataFrame(counter), sortmemo[Frequencies(DataFrame(counter))])

\* C5: bigram_df is the first min(top_k, D) rows of the sorted table, D the
\* number of phrases counted: at most top_k rows, all D of them when
\* D <= top_k, each a row of counter, no phrase twice, and no phrase left out
\* has a greater count than a phrase in bigram_df.
C5_TopK ==
    pc = "done" =>
        /\ Len(bigram_df) = Min(top_k, Len(counter))
        /\ Len(bigram_df) <= top_k
        /\ bigram_df = SubSeq(Ranking, 1, Len(bigram_df))
        /\ KeysDistinct(bigram_df)
        /\ \A k \in 1..Len(bigram_df) : \E m \in 1..Len(counter) : counter[m] = bigram_df[k]
        /\ \A m \in 1..Len(counter) :
             counter[m].phrase \notin Keys(bigram_df)
                => \A k \in 1..Len(bigram_df) : counter[m].n <= bigram_df[k].n

\* twelve phrases counted, ten shown, two left out
C5_Witness ==
    /\ pc = "done"
    /\ Len(counter) = top_k + 2
    /\ Len(bigram_df) = top_k
    /\ \E m \in 1..Len(counter) : counter[m].phrase \notin Keys(bigram_df)

IsMissing(row) == row = <<None>>

NoWords(row) == row \in ZeroRows

\* the rows of the input that are not missing cells
PresentRows == SelectSeq(rows, LAMBDA row : ~IsMissing(row))

\* C7: a missing cell is passed over (no error, no review taken for it), an
\* empty or blank text forms no phrase, and an input of nothing but missing,
\* empty and blank cells ends with an empty bigram_df.
C7_AbsentAndEmpty ==
    /\ pc # "error"
    /\ Len(formed) <= Len(PresentRows)
    /\ LoopDone => Len(formed) = Len(PresentRows)
    /\ \A j \in 1..Len(formed) : NoWords(PresentRows[j]) => formed[j] = <<>>
    /\ (pc = "done" /\ \A k \in 1..Len(rows) : NoWords(rows[k]))
          => (counter = <<>> /\ bigram_df = <<>>)

\* a missing cell before a text that has a phrase
C7_Witness ==
    /\ pc = "done"
    /\ Len(rows) = 2
    /\ IsMissing(rows[1])
    /\ bigram_df # <<>>

\* the phrases of a text of words t: every two neighbours, in order
WindowPhrases(t) == [k \in 1..Max0(Len(t) - 1) |-> Join2(t[k], t[k + 1])]

\* C8: once the loop has taken every text, each text of N words has formed
\* the N-1 phrases of its neighbouring words, in order (none for N < 2), no
\* phrase was formed across two texts, and the phrases formed over all texts
\* number the sum of max(0, N-1).
C8_SlidingWindow ==
    LoopDone =>
        LET ts == TokensOfTexts
        IN  /\ Len(formed) = Len(ts)
            /\ \A j \in 1..Len(ts) :
                 /\ Len(formed[j]) = Max0(Len(ts[j]) - 1)
                 /\ formed[j] = WindowPhrases(ts[j])
            /\ SeqSum([j \in 1..Len(formed) |-> Len(formed[j])], Len(formed))
                 = SeqSum([j \in 1..Len(ts) |-> Max0(Len(ts[j]) - 1)], Len(ts))

\* a text of three words, then a text of one word: two phrases, not three
C8_Witness ==
    /\ pc = "done"
    /\ Len(Texts) = 2
    /\ Len(Tokens(Texts[1])) = 3
    /\ Len(Tokens(Texts[2])) = 1
    /\ Len(formed[1]) = 2
    /\ Len(formed[2]) = 0

\* the word a raw word stands for
NormalForm(piece) ==
    IF piece = P_Fast THEN w_fast
    ELSE IF piece = P_Delivery THEN w_delivery
    ELSE piece

\* the words each row's raw words stand for (a missing cell has none)
WordsOfRows ==
    [k \in 1..Len(rows) |->
        IF NoWords(rows[k]) THEN <<>>
        ELSE [m \in 1..Len(rows[k]) |-> NormalForm(rows[k][m])]]

IsWord(t) == t # <<>> /\ \A k \in 1..Len(t) : t[k] \in LowerLetters

\* C9: every phrase of counter is two non-empty words of the letters a-z
\* with one space between them, and the raw spellings of a word (capitals,
\* digits, punctuation, more whitespace) are counted as that word: the counts
\* are those of the neighbouring words the raw words stand for.
C9_NormalizedPhrases ==
    /\ \A k \in 1..Len(counter) :
         LET phrase == counter[k].phrase
         IN  \E cut \in 1..Len(phrase) :
                /\ phrase[cut] = " "
                /\ IsWord(SubSeq(phrase, 1, cut - 1))
                /\ IsWord(SubSeq(phrase, cut + 1, Len(phrase)))
    /\ LoopDone =>
         LET ws == WordsOfRows
         IN  /\ Keys(counter) = PhrasesOf(ws) \ neutral_phrases
             /\ \A k \in 1..Len(counter) :
                  counter[k].n = TotalOccurrences(counter[k].phrase, ws)

\* "delivery Fast" and "\tDelivery4! Fast" are one phrase, counted twice
C9_Witness ==
    /\ pc = "done"
    /\ feedback = << JoinPieces(<<w_delivery, P_Fast>>), JoinPieces(<<P_Delivery, P_Fast>>) >>
    /\ counter = << [phrase |-> Join2(w_delivery, w_fast), n |-> 2] >>

\* C10: a run's counts are those of its own texts, whatever ran before, and
\* a run whose feedback is that of an earlier run ends with that run's bigram_df.
C10_RunsIndependent ==
    /\ LoopDone =>
         LET ts == TokensOfTexts
         IN  \A phrase \in PhrasesOf(ts) \cup Keys(counter) :
                IF phrase \in neutral_phrases
                THEN phrase \notin Keys(counter)
                ELSE /\ phrase \in Keys(counter)
                     /\ CountOf(counter, phrase) = TotalOccurrences(phrase, ts)
    /\ pc = "done" => \A e \in earlier : e[1] = feedback => e[2] = bigram_df

\* a second run on the feedback of the first, with phrases counted
C10_Witness ==
    /\ run = 2
    /\ pc = "done"
    /\ bigram_df # <<>>
    /\ \E e \in earlier : e[1] = feedback /\ e[2] = bigram_df

=============================================================================
